---------------------------- MODULE Spec2Model ----------------------------
(***************************************************************************)
(* Level validation engine of parable-bloom, scripts/validate_levels.py.   *)
(*                                                                         *)
(* main walks the list of level files.  For each file it parses the        *)
(* document, builds one LevelValidator around it (data) and calls          *)
(* validate_all, which runs eight validators in a row, each appending to   *)
(* the violations and warnings lists and some writing a metric back into   *)
(* the document.  main then opens the file for writing, dumps the document *)
(* into it, and print_report turns the two lists into the per-document     *)
(* verdict that main tallies.  An exception anywhere in the loop body is   *)
(* caught by main, counted, and the loop goes on.  Every validator and     *)
(* every step of main is one action; pc names the step that runs next.     *)
(*                                                                         *)
(* Numbers: occupancy_percent is kept in tenths of a percent (1000 is      *)
(* 100.0) and color_distribution in thousandths.  Python compares float    *)
(* quotients of small integers with decimal literals; for the integers of  *)
(* this model two different rationals are further apart than the float     *)
(* rounding error and equal rationals round to the same float, so each     *)
(* comparison is modelled exactly on integers.                             *)
(***************************************************************************)
EXTENDS Integers, Sequences, FiniteSets, TLC

VARIABLES
    data,        \* LevelValidator.data: the document, metrics included
    violations,  \* LevelValidator.violations, in order of appending
    warnings,    \* LevelValidator.warnings, in order of appending
    pc,          \* the step of main / validate_all that runs next
    exc,         \* the exception raised in the loop body, "none" otherwise
    verdict,     \* the value print_report returned (read when pc = "reported")
    level_files, \* main's list of files, each as it was when main started
    idx,         \* the position of fpath in level_files, 0 before the loop
    disk,        \* what each file holds now
    printed,     \* the per-file lines main and print_report have printed
    tally,       \* files_checked, files_valid, total_violations, total_warnings
    status       \* the exit status of the process, -1 while it runs

valVars == <<data, violations, warnings, exc, verdict>>

mainVars == <<level_files, idx, disk, printed, tally, status>>

vars == <<data, violations, warnings, pc, exc, verdict,
          level_files, idx, disk, printed, tally, status>>

---------------------------------------------------------------------------
(* Bounds of the input documents.                                          *)

\* Grids of the tiling documents are w x h with w in 1..MaxGrid, h in 1..2.
MaxGrid == 2
\* Paths of the single-vine path documents have 0..MaxPathLen cells.
MaxPathLen == 2
\* The blocking documents have 0..MaxBlockVines vines.
MaxBlockVines == 3
\* The color documents have 1..MaxColorVines vines.
MaxColorVines == 10
\* The vine-count documents have 0..MaxCountVines vines.
MaxCountVines == 61
\* The masked line documents are LineWidth x 1 grids.
LineWidth == 101
\* A mask of the line documents lists at most MaxHidden points.
MaxHidden == 2
\* The chain documents have 1..MaxChain vines.
MaxChain == 4
\* The overlap documents are rows of 2..MaxOverlap cells.
MaxOverlap == 6
\* A batch of main has 0..MaxFiles files.
MaxFiles == 2
\* The documents built for the directional balance have 10..MaxBalanceVines
\* vines.
MaxBalanceVines == 11
\* Depth at which the interpreter gives up a recursion (CPython: 1000).  Any
\* limit above the number of graph nodes gives the same outcome: an acyclic
\* descent is shorter than that, a cyclic one never ends.
RecursionLimit == 12

---------------------------------------------------------------------------
(* Program constants.                                                      *)

HEAD_DELTA ==
    [right |-> <<1, 0>>, left |-> <<-1, 0>>, up |-> <<0, 1>>, down |-> <<0, -1>>]

VINE_COLORS ==
    {"moss_green", "sunset_orange", "golden_yellow", "royal_purple",
     "sky_blue", "coral_red", "lime_green"}

DIFFICULTY_SPECS ==
    [Seedling |->
        [vine_count_range |-> <<4, 60>>, avg_length_range |-> <<6, 8>>,
         max_blocking_depth |-> 1, color_count_range |-> <<1, 5>>],
     Sprout |->
        [vine_count_range |-> <<8, 80>>, avg_length_range |-> <<5, 7>>,
         max_blocking_depth |-> 2, color_count_range |-> <<1, 5>>],
     Nurturing |->
        [vine_count_range |-> <<12, 100>>, avg_length_range |-> <<4, 6>>,
         max_blocking_depth |-> 3, color_count_range |-> <<1, 6>>],
     Flourishing |->
        [vine_count_range |-> <<15, 150>>, avg_length_range |-> <<3, 5>>,
         max_blocking_depth |-> 4, color_count_range |-> <<1, 6>>],
     Transcendent |->
        [vine_count_range |-> <<15, 200>>, avg_length_range |-> <<2, 4>>,
         max_blocking_depth |-> 4, color_count_range |-> <<1, 6>>]]

required_fields ==
    <<"id", "name", "grid_size", "difficulty", "vines", "max_moves",
      "min_moves", "complexity", "grace">>

---------------------------------------------------------------------------
(* Helpers.                                                                *)

\* dict.get(field, default): rec.absent holds the keys the dict lacks.
Get(rec, field, default) ==
    IF field \in rec.absent THEN default ELSE rec[field]

\* One entry of the violations or warnings list: the kind of message and
\* the values formatted into it.
Msg(kind, who, n, m) == [kind |-> kind, who |-> who, n |-> n, m |-> m]

Abs(x) == IF x < 0 THEN -x ELSE x

Min2(a, b) == IF a < b THEN a ELSE b

Max2(a, b) == IF a > b THEN a ELSE b

\* The concatenation of the sequences of ss, in order: what a loop that
\* appends ss[i] in its i-th round leaves behind.
RECURSIVE Flatten(_)
Flatten(ss) ==
    IF Len(ss) = 0 THEN <<>>
    ELSE IF Len(ss) = 1 THEN ss[1]
    ELSE LET half == Len(ss) \div 2
         IN Flatten(SubSeq(ss, 1, half)) \o Flatten(SubSeq(ss, half + 1, Len(ss)))

RECURSIVE SetToSeq(_)
SetToSeq(S) ==
    IF S = {} THEN <<>>
    ELSE LET x == CHOOSE y \in S : TRUE IN <<x>> \o SetToSeq(S \ {x})

RECURSIVE SumSeq(_)
SumSeq(s) ==
    IF Len(s) = 0 THEN 0
    ELSE IF Len(s) = 1 THEN s[1]
    ELSE LET half == Len(s) \div 2
         IN SumSeq(SubSeq(s, 1, half)) + SumSeq(SubSeq(s, half + 1, Len(s)))

\* The members of a set of integers in increasing order.
SortedSeq(S) ==
    [k \in 1 .. Cardinality(S) |->
        CHOOSE i \in S : Cardinality({j \in S : j < i}) = k - 1]

\* The index at which x first occurs in s.
FirstIndex(s, x) ==
    LET at == {i \in DOMAIN s : s[i] = x}
    IN CHOOSE i \in at : \A j \in at : i <= j

\* The distinct elements of s in order of first occurrence: the keys of a
\* dict (a Counter, a defaultdict) filled by a loop over s.
InsertionOrder(s) ==
    LET first == [x \in {s[i] : i \in DOMAIN s} |-> FirstIndex(s, x)]
    IN [k \in 1 .. Cardinality(DOMAIN first) |->
            CHOOSE x \in DOMAIN first :
                Cardinality({y \in DOMAIN first : first[y] < first[x]}) = k - 1]

Range(s) == {s[i] : i \in DOMAIN s}

KindsOf(list) == {list[i].kind : i \in DOMAIN list}

CountKind(list, kind) == Cardinality({i \in DOMAIN list : list[i].kind = kind})

\* round(q, digits) of the quotient num/den, in units of 10^-digits given by
\* scale: the nearest integer to scale*num/den, a tie going to the even one.
RoundQuot(num, den, scale) ==
    LET q == (scale * num) \div den
        r == (scale * num) % den
    IN IF 2 * r < den THEN q
       ELSE IF 2 * r > den THEN q + 1
       ELSE IF q % 2 = 0 THEN q ELSE q + 1

---------------------------------------------------------------------------
(* _validate_basic_structure                                               *)

MissingFieldViolations(doc) ==
    Flatten([i \in DOMAIN required_fields |->
        IF required_fields[i] \in doc.absent
        THEN <<Msg("MissingField", required_fields[i], 0, 0)>>
        ELSE <<>>])

\* The values of the field are strings where the code computes with numbers:
\* the document keeps the field's shape and rec.nonnumeric names the field.
NonNumeric(rec, field) == field \in rec.nonnumeric

\* `grid_size[0] <= 0` raises TypeError for a string and the except clause
\* appends the other message; the length test comes first.
GridSizeViolations(doc) ==
    LET grid_size == Get(doc, "grid_size", <<>>)
    IN IF Len(grid_size) # 2
       THEN <<Msg("InvalidGridSize", "", Len(grid_size), 0)>>
       ELSE IF NonNumeric(doc, "grid_size")
       THEN <<Msg("GridSizeMustBe", "", 0, 0)>>
       ELSE IF grid_size[1] <= 0 \/ grid_size[2] <= 0
       THEN <<Msg("InvalidGridSize", "", Len(grid_size), 0)>>
       ELSE <<>>

---------------------------------------------------------------------------
(* _validate_vine_paths                                                    *)

ContiguityViolations(vine_id, path) ==
    Flatten([i \in 1 .. Len(path) - 1 |->
        LET curr == path[i]
            next_cell == path[i + 1]
            distance == Abs(curr.x - next_cell.x) + Abs(curr.y - next_cell.y)
        IN IF distance # 1
           THEN <<Msg("NotContiguous", vine_id, i - 1, distance)>>
           ELSE <<>>])

expected_neck_Ahead(head, head_dir) ==
    [x |-> head.x + HEAD_DELTA[head_dir][1], y |-> head.y + HEAD_DELTA[head_dir][2]]

expected_neck(head, head_dir) ==
    [x |-> head.x - HEAD_DELTA[head_dir][1], y |-> head.y - HEAD_DELTA[head_dir][2]]

HeadNeckViolations(vine_id, path, head_dir) ==
    LET head == path[1]
        neck == path[2]
        expected == expected_neck(head, head_dir)
    IN IF neck.x # expected.x \/ neck.y # expected.y
       THEN <<Msg("HeadMismatch", vine_id, 0, 0)>>
       ELSE <<>>

VinePathViolations(vine) ==
    LET vine_id == Get(vine, "id", "unknown")
        path == Get(vine, "ordered_path", <<>>)
        head_dir == Get(vine, "head_direction", "")
    IN IF Len(path) < 2
       THEN <<Msg("PathTooShort", vine_id, Len(path), 0)>>
       ELSE ContiguityViolations(vine_id, path) \o
            (IF head_dir \notin DOMAIN HEAD_DELTA
             THEN <<Msg("InvalidHeadDirection", vine_id, 0, 0)>>
             ELSE HeadNeckViolations(vine_id, path, head_dir))

PathViolations(doc) ==
    LET vines == Get(doc, "vines", <<>>)
    IN Flatten([i \in DOMAIN vines |-> VinePathViolations(vines[i])])

---------------------------------------------------------------------------
(* _validate_grid_occupancy                                                *)

total_cells_Perimeter(grid_size) == grid_size[1] + grid_size[2]

total_cells(grid_size) == grid_size[1] * grid_size[2]

\* The (coord, vine_id) pairs in the order the two nested loops visit them.
PathCells(vine) ==
    LET path == Get(vine, "ordered_path", <<>>)
    IN [i \in DOMAIN path |->
            [coord |-> <<path[i].x, path[i].y>>,
             vine_id |-> Get(vine, "id", "unknown")]]

AllCells(doc) ==
    LET vines == Get(doc, "vines", <<>>)
    IN Flatten([i \in DOMAIN vines |-> PathCells(vines[i])])

\* What the scan loop leaves behind.  A coordinate enters `occupied` with
\* the vine of its first visit and is never overwritten; each later visit
\* appends (owner, visiting vine) to duplicates[coord].
ScanCells(cells) ==
    LET visits == [c \in {cells[i].coord : i \in DOMAIN cells} |->
                      {i \in DOMAIN cells : cells[i].coord = c}]
        first == [c \in DOMAIN visits |->
                      CHOOSE i \in visits[c] : \A j \in visits[c] : i <= j]
        later(c) == SortedSeq(visits[c] \ {first[c]})
        twice == {d \in DOMAIN visits : Cardinality(visits[d]) > 1}
    IN [occupied |-> [c \in DOMAIN visits |-> cells[first[c]].vine_id],
        duplicates |->
            [c \in twice |->
                [k \in DOMAIN later(c) |->
                    <<cells[first[c]].vine_id, cells[later(c)[k]].vine_id>>]],
        \* the keys of `duplicates` in insertion order: a key is made by the
        \* second visit of its coordinate
        keys |->
            [k \in 1 .. Cardinality(twice) |->
                CHOOSE c \in twice :
                    Cardinality({d \in twice : later(d)[1] < later(c)[1]}) = k - 1]]

EmptyMask == [mode |-> "", points |-> <<>>, absent |-> {"mode", "points"}]

\* A point of the mask is a two-element list, an x/y-keyed dict, or neither.
hidden_coords(doc) ==
    LET mask == Get(doc, "mask", EmptyMask)
    IN IF Get(mask, "mode", "") = "hide" /\ "points" \notin mask.absent
       THEN {<<mask.points[i].x, mask.points[i].y>> :
                i \in {j \in DOMAIN mask.points :
                          mask.points[j].kind \in {"list", "dict"}}}
       ELSE {}

effective_total(total, hidden) == Max2(total - Cardinality(hidden), 0)

\* occupancy < num/den, occupancy being unique/effective, or 0 when the
\* effective total is not positive.
OccupancyBelow(unique_occupied, effective, num, den) ==
    IF effective > 0
    THEN den * unique_occupied < num * effective
    ELSE 0 < num

\* round(occupancy * 100, 1), in tenths of a percent.
occupancy_percent(unique_occupied, effective) ==
    IF effective > 0 THEN RoundQuot(unique_occupied, effective, 1000) ELSE 0

\* `list(duplicates.items())[:5]`
sample_All(scan) ==
    [k \in 1 .. Len(scan.keys) |->
        [coord |-> scan.keys[k], conflicts |-> scan.duplicates[scan.keys[k]]]]

sample(scan) ==
    [k \in 1 .. Min2(5, Len(scan.keys)) |->
        [coord |-> scan.keys[k], conflicts |-> scan.duplicates[scan.keys[k]]]]

\* The one message carries len(duplicates) and the sample.
OverlapViolations(scan) ==
    IF DOMAIN scan.duplicates # {}
    THEN <<Msg("Overlap", sample(scan), Cardinality(DOMAIN scan.duplicates),
               Len(sample(scan)))>>
    ELSE <<>>

MaskedBranch_AnyMask(doc, hidden) == "mask" \notin doc.absent

\* `if hidden_coords:` - the masked policy is taken when the mask hides cells.
MaskedBranch(doc, hidden) == hidden # {}

\* `unique_occupied < effective_total` of the no-mask branch.
StrictShortfall(unique_occupied, effective) == unique_occupied < effective

CoverageEntries(doc, unique_occupied, effective, hidden) ==
    IF MaskedBranch(doc, hidden)
    THEN IF OccupancyBelow(unique_occupied, effective, 99, 100)
         THEN [violations |->
                  <<Msg("CoverageIncomplete", "",
                        occupancy_percent(unique_occupied, effective), 0)>>,
               warnings |-> <<>>]
         ELSE IF OccupancyBelow(unique_occupied, effective, 1, 1)
         THEN [violations |-> <<>>,
               warnings |->
                  <<Msg("CoverageNear", "",
                        occupancy_percent(unique_occupied, effective),
                        Cardinality(hidden))>>]
         ELSE [violations |-> <<>>, warnings |-> <<>>]
    ELSE IF StrictShortfall(unique_occupied, effective)
         THEN [violations |->
                  <<Msg("NotFullyTiled", "", unique_occupied, effective)>>,
               warnings |-> <<>>]
         ELSE [violations |-> <<>>, warnings |-> <<>>]

\* The whole of _validate_grid_occupancy after its early return, for a
\* grid_size of two numbers.
GridOccupancy(doc) ==
    LET grid_size == Get(doc, "grid_size", <<>>)
        scan == ScanCells(AllCells(doc))
        unique_occupied == Cardinality(DOMAIN scan.occupied)
        hidden == hidden_coords(doc)
        effective == effective_total(total_cells(grid_size), hidden)
        coverage == CoverageEntries(doc, unique_occupied, effective, hidden)
    IN [percent |-> occupancy_percent(unique_occupied, effective),
        violations |-> OverlapViolations(scan) \o coverage.violations,
        warnings |-> coverage.warnings]

---------------------------------------------------------------------------
(* _validate_colors                                                        *)

ColorsOf(doc) ==
    LET vines == Get(doc, "vines", <<>>)
    IN [i \in DOMAIN vines |-> Get(vines[i], "color", "unknown")]

CounterCount(colors, color) ==
    Cardinality({i \in DOMAIN colors : colors[i] = color})

UnknownColorWarnings(keys) ==
    Flatten([i \in DOMAIN keys |->
        IF keys[i] \notin VINE_COLORS /\ keys[i] # "unknown"
        THEN <<Msg("UnknownColor", keys[i], 0, 0)>>
        ELSE <<>>])

ColorCountWarnings(doc, keys) ==
    LET difficulty == Get(doc, "difficulty", "")
    IN IF difficulty \in DOMAIN DIFFICULTY_SPECS
       THEN LET color_range == DIFFICULTY_SPECS[difficulty].color_count_range
            IN IF ~(color_range[1] <= Len(keys) /\ Len(keys) <= color_range[2])
               THEN <<Msg("ColorCountOutside", difficulty, Len(keys), 0)>>
               ELSE <<>>
       ELSE <<>>

ExceedsCap_AtOrAbove(count, total) == 100 * count >= 35 * total

\* count / len(vines) > 0.35
ExceedsCap(count, total) == 100 * count > 35 * total

\* `if color == 'unknown': continue`
SkipsCap(color) == color = "unknown"

ColorCapViolations(colors, keys) ==
    Flatten([i \in DOMAIN keys |->
        IF ~SkipsCap(keys[i])
           /\ ExceedsCap(CounterCount(colors, keys[i]), Len(colors))
        THEN <<Msg("ColorExceeds", keys[i], CounterCount(colors, keys[i]),
                   Len(colors))>>
        ELSE <<>>])

\* color -> round(count / len(vines), 3), in thousandths.
color_distribution(colors, keys) ==
    [c \in Range(keys) |-> RoundQuot(CounterCount(colors, c), Len(colors), 1000)]

---------------------------------------------------------------------------
(* _validate_vine_lengths                                                  *)

LengthsOf(doc) ==
    LET vines == Get(doc, "vines", <<>>)
    IN [i \in DOMAIN vines |-> Len(Get(vines[i], "ordered_path", <<>>))]

MinOf(s) == CHOOSE m \in Range(s) : \A k \in Range(s) : m <= k

\* avg_range[0] <= sum(lengths) / len(lengths) <= avg_range[1] fails.
AvgLengthWarnings(difficulty, lengths) ==
    LET avg_range == DIFFICULTY_SPECS[difficulty].avg_length_range
        total == SumSeq(lengths)
    IN IF ~(avg_range[1] * Len(lengths) <= total
            /\ total <= avg_range[2] * Len(lengths))
       THEN <<Msg("AvgLengthOutside", difficulty, total, Len(lengths))>>
       ELSE <<>>

MinLengthViolations(lengths) ==
    IF MinOf(lengths) < 2
    THEN <<Msg("VineTooShort", "", MinOf(lengths), 0)>>
    ELSE <<>>

---------------------------------------------------------------------------
(* _validate_blocking_relationships                                        *)

BlocksOf(vine) == Get(vine, "blocks", <<>>)

\* blocking_graph.get(node, [])
Adj(graph, node) == IF node \in DOMAIN graph THEN graph[node] ELSE {}

NonExistentViolations(vines, vine_ids) ==
    Flatten([i \in DOMAIN vines |->
        Flatten([j \in DOMAIN BlocksOf(vines[i]) |->
            IF BlocksOf(vines[i])[j] \notin vine_ids
            THEN <<Msg("BlocksNonExistent", Get(vines[i], "id", ""), j,
                       BlocksOf(vines[i])[j])>>
            ELSE <<>>])])

\* The keys of blocking_graph in insertion order: a key is made by the first
\* add() for a vine, so a vine with an empty blocks list has none.
GraphKeys(vines) ==
    InsertionOrder(
        Flatten([i \in DOMAIN vines |->
            IF BlocksOf(vines[i]) # <<>>
            THEN <<Get(vines[i], "id", "")>> ELSE <<>>]))

blocking_graph_KnownOnly(vines) ==
    [k \in Range(GraphKeys(vines)) |->
        UNION {Range(BlocksOf(vines[i])) \cap {vines[j].id : j \in DOMAIN vines} :
                 i \in {j \in DOMAIN vines : Get(vines[j], "id", "") = k}}]

\* `blocking_graph[vine_id].add(blocked_id)` for every blocked_id, known or not.
blocking_graph(vines) ==
    [k \in Range(GraphKeys(vines)) |->
        UNION {Range(BlocksOf(vines[i])) :
                 i \in {j \in DOMAIN vines : Get(vines[j], "id", "") = k}}]

\* The while loop of the cycle check for one origin: the violations it
\* appends.  The stack is popped at its end.
RECURSIVE CycleScan(_, _, _, _)
CycleScan(graph, vine_id, stack, visited) ==
    IF stack = <<>> THEN <<>>
    ELSE LET current == stack[Len(stack)]
             rest == SubSeq(stack, 1, Len(stack) - 1)
         IN IF current \in visited
            THEN CycleScan(graph, vine_id, rest, visited)
            ELSE LET blocked == SetToSeq(Adj(graph, current))
                 IN Flatten([i \in DOMAIN blocked |->
                        IF blocked[i] = vine_id
                        THEN <<Msg("Circular", vine_id, 0, 0)>>
                        ELSE <<>>])
                    \o CycleScan(graph, vine_id, rest \o blocked,
                                 visited \cup {current})

CircularViolations(graph, keys) ==
    Flatten([i \in DOMAIN keys |-> CycleScan(graph, keys[i], <<keys[i]>>, {})])

IsBlocked_ByOthers(vines, i) ==
    \E j \in DOMAIN vines : j # i /\ vines[i].id \in Range(BlocksOf(vines[j]))

\* The inner loop of the deadlock check: other_vine runs over every vine.
IsBlocked(vines, i) ==
    \E j \in DOMAIN vines : vines[i].id \in Range(BlocksOf(vines[j]))

clearable_at_start(vines) ==
    Flatten([i \in DOMAIN vines |->
        IF ~IsBlocked(vines, i) THEN <<vines[i].id>> ELSE <<>>])

DeadlockViolations(vines) ==
    IF clearable_at_start(vines) = <<>>
    THEN <<Msg("Deadlock", "", 0, 0)>>
    ELSE <<>>

ChildLength_NoEdge(child_len) == child_len

\* `1 + longest_path(child, memo)`
ChildLength(child_len) == 1 + child_len

\* longest_path(node, memo) at recursion depth `depth`: the length, the memo
\* as the call leaves it, and whether the interpreter's recursion limit was
\* hit (RecursionError, which unwinds every frame).
RECURSIVE longest_path(_, _, _, _)
RECURSIVE longest_path_children(_, _, _, _, _)
longest_path(graph, node, memo, depth) ==
    IF depth > RecursionLimit
    THEN [len |-> 0, memo |-> memo, overflow |-> TRUE]
    ELSE IF node \in DOMAIN memo
    THEN [len |-> memo[node], memo |-> memo, overflow |-> FALSE]
    ELSE LET r == longest_path_children(graph, SetToSeq(Adj(graph, node)),
                                        memo, 0, depth)
         IN IF r.overflow THEN r
            ELSE [len |-> r.len, memo |-> r.memo @@ (node :> r.len),
                  overflow |-> FALSE]

longest_path_children(graph, children, memo, max_len, depth) ==
    IF children = <<>>
    THEN [len |-> max_len, memo |-> memo, overflow |-> FALSE]
    ELSE LET c == longest_path(graph, Head(children), memo, depth + 1)
         IN IF c.overflow THEN c
            ELSE longest_path_children(graph, Tail(children), c.memo,
                                       Max2(max_len, ChildLength(c.len)), depth)

\* `for n in blocking_graph.keys(): max_depth = max(max_depth, ...)`
RECURSIVE max_depth(_, _, _, _)
max_depth(graph, keys, memo, depth_so_far) ==
    IF keys = <<>>
    THEN [len |-> depth_so_far, memo |-> memo, overflow |-> FALSE]
    ELSE LET r == longest_path(graph, Head(keys), memo, 1)
         IN IF r.overflow THEN r
            ELSE max_depth(graph, Tail(keys), r.memo, Max2(depth_so_far, r.len))

ExceedsGoal_AtOrAbove(depth, goal) == depth >= goal

\* `max_depth > goal`
ExceedsGoal(depth, goal) == depth > goal

DepthWarnings(doc, depth) ==
    LET difficulty == Get(doc, "difficulty", "")
    IN IF difficulty \in DOMAIN DIFFICULTY_SPECS
          /\ ExceedsGoal(depth, DIFFICULTY_SPECS[difficulty].max_blocking_depth)
       THEN <<Msg("DepthExceeds", difficulty, depth,
                  DIFFICULTY_SPECS[difficulty].max_blocking_depth)>>
       ELSE <<>>

\* The whole of _validate_blocking_relationships: what it appends, what it
\* writes, and the exception that ends it, if any.  `vine['id']` raises
\* KeyError for a vine without an id before anything is appended; the depth
\* computation raises RecursionError after the three checks have appended.
BlockingRelationships(doc) ==
    LET vines == Get(doc, "vines", <<>>)
    IN IF \E i \in DOMAIN vines : "id" \in vines[i].absent
       THEN [exc |-> "KeyError", violations |-> <<>>, warnings |-> <<>>,
             graph |-> <<>>, depth |-> 0]
       ELSE LET vine_ids == {vines[i].id : i \in DOMAIN vines}
                keys == GraphKeys(vines)
                graph == blocking_graph(vines)
                found == NonExistentViolations(vines, vine_ids)
                           \o CircularViolations(graph, keys)
                           \o DeadlockViolations(vines)
                deepest == max_depth(graph, keys, <<>>, 0)
            IN IF deepest.overflow
               THEN [exc |-> "RecursionError", violations |-> found,
                     warnings |-> <<>>, graph |-> <<>>, depth |-> 0]
               ELSE [exc |-> "none", violations |-> found,
                     warnings |-> DepthWarnings(doc, deepest.len),
                     graph |-> graph, depth |-> deepest.len]

---------------------------------------------------------------------------
(* _validate_directional_balance                                           *)

\* direction, min and max share of the vines, in percent
expected_ranges ==
    <<(<<"right", 25, 30>>), (<<"left", 20, 25>>), (<<"up", 20, 25>>),
      (<<"down", 20, 30>>)>>

DirectionWarnings(doc) ==
    LET vines == Get(doc, "vines", <<>>)
        total == Len(vines)
    IN IF total < 10 THEN <<>>
       ELSE Flatten([k \in DOMAIN expected_ranges |->
                LET direction == expected_ranges[k][1]
                    count == Cardinality({i \in DOMAIN vines :
                        Get(vines[i], "head_direction", "") = direction})
                IN IF ~(expected_ranges[k][2] * total <= 100 * count
                        /\ 100 * count <= expected_ranges[k][3] * total)
                   THEN <<Msg("DirectionImbalanced", direction, count, total)>>
                   ELSE <<>>])

---------------------------------------------------------------------------
(* _validate_difficulty_compliance                                         *)

DifficultyViolations(doc) ==
    LET vines == Get(doc, "vines", <<>>)
        difficulty == Get(doc, "difficulty", "")
    IN IF difficulty \notin DOMAIN DIFFICULTY_SPECS \/ vines = <<>>
       THEN <<>>
       ELSE LET vine_range == DIFFICULTY_SPECS[difficulty].vine_count_range
            IN IF ~(vine_range[1] <= Len(vines) /\ Len(vines) <= vine_range[2])
               THEN <<Msg("VineCountOutside", difficulty, Len(vines), 0)>>
               ELSE <<>>

---------------------------------------------------------------------------
(* validate_all                                                            *)

validate_all_StatisticalFirst ==
    <<"structure", "paths", "occupancy", "colors", "lengths", "balance",
      "blocking", "difficulty">>

\* The validators in the order validate_all calls them.
validate_all ==
    <<"structure", "paths", "occupancy", "colors", "lengths", "blocking",
      "balance", "difficulty">>

\* The step after validator `step`: the next call, or the return.
Following(step) ==
    LET i == CHOOSE k \in DOMAIN validate_all : validate_all[k] = step
    IN IF i < Len(validate_all) THEN validate_all[i + 1] ELSE "returned"

\* `self.data[field] = value`
SetMetric_DroppingMask(doc, field, value) ==
    [doc EXCEPT ![field] = value, !.absent = (@ \ {field}) \cup {"mask"}]

SetMetric(doc, field, value) ==
    [doc EXCEPT ![field] = value, !.absent = @ \ {field}]

---------------------------------------------------------------------------
(* print_report                                                            *)

print_report_CleanOnly(viols, warns) == viols = <<>> /\ warns = <<>>

print_report(viols, warns) ==
    IF viols = <<>> /\ warns = <<>> THEN TRUE ELSE Len(viols) = 0

\* What print_report prints for the file: its mark and its two lists.
report_line(file, viols, warns) ==
    [file |-> file,
     mark |-> IF viols = <<>> /\ warns = <<>> THEN "ok"
              ELSE IF viols # <<>> THEN "fail" ELSE "warn",
     violations |-> Len(viols), warnings |-> Len(warns)]

---------------------------------------------------------------------------
(* main                                                                    *)

\* The steps of the loop body, in order.
Steps ==
    <<"read">> \o validate_all \o <<"returned", "dump", "written", "reported">>

\* The blocking graph is a dict of sets and json has no encoding for a set:
\* the document can be dumped when the graph has no key.
Serializable(doc) ==
    "blocking_graph" \in doc.absent \/ DOMAIN doc.blocking_graph = {}

\* What an except clause prints for the file.
error_line(file, raised) ==
    [file |-> file,
     mark |-> IF raised = "JSONDecodeError" THEN "invalid_json" ELSE "error",
     violations |-> 0, warnings |-> 0]

\* `for fpath in level_files`: the step and the file after this one.
next_pc(i, files) == IF i < Len(files) THEN "read" ELSE "summary"

next_idx(i, files) == IF i < Len(files) THEN i + 1 ELSE i

exit_status_AnyValid(files_valid, files_checked) ==
    IF files_valid > 0 THEN 0 ELSE 1

exit_status(files_valid, files_checked) ==
    IF files_valid = files_checked THEN 0 ELSE 1

---------------------------------------------------------------------------
(* The documents validated: json.load can hand validate_all any of them.   *)

Cell(x, y) == [x |-> x, y |-> y]

VineRec(id, path, head_dir, color, blocks, absent) ==
    [id |-> id, ordered_path |-> path, head_direction |-> head_dir,
     color |-> color, blocks |-> blocks, absent |-> absent]

MaskRec(mode, points) == [mode |-> mode, points |-> points, absent |-> {}]

MetricFields ==
    {"occupancy_percent", "color_distribution", "blocking_graph",
     "blocking_depth"}

\* A document as parsed: the metrics are not in it yet.
DocRec(grid_size, difficulty, vines, mask, absent) ==
    [id |-> "level_1", name |-> "level", grid_size |-> grid_size,
     difficulty |-> difficulty, vines |-> vines, max_moves |-> 0,
     min_moves |-> 0, complexity |-> "low", grace |-> 0, mask |-> mask,
     occupancy_percent |-> 0, color_distribution |-> <<>>,
     blocking_graph |-> <<>>, blocking_depth |-> 0,
     absent |-> absent \cup MetricFields, nonnumeric |-> {}]

VineId(i) == <<"v1", "v2", "v3", "v4", "v5">>[i]

\* A two-cell vine lying in row `row`, head at x = 0 and pulled to the left.
RowVine(id, row, color, blocks, absent) ==
    VineRec(id, <<Cell(0, row), Cell(1, row)>>, "left", color, blocks, absent)

SeqsUpTo(S, n) == UNION {[1 .. k -> S] : k \in 0 .. n}

\* The cell (1, 1) and its four neighbours.
PlusCells == {Cell(1, 1), Cell(0, 1), Cell(2, 1), Cell(1, 0), Cell(1, 2)}

\* One vine with any short path over the cells of a plus and any head
\* direction, valid or not.
PathDocs ==
    {DocRec(<<3, 3>>, "Zen",
            <<VineRec("v1", path, head_dir, "", <<>>,
                      (IF head_dir = "" THEN {"head_direction"} ELSE {})
                        \cup {"color"})>>,
            EmptyMask, {"mask"}) :
        path \in SeqsUpTo(PlusCells, MaxPathLen),
        head_dir \in (DOMAIN HEAD_DELTA) \cup {"diagonal", ""}}

\* A straight run of one or two cells from (x, y), to the right ("h") or up ("v"),
\* with the head direction that matches it.
Segment(id, x, y, way, len) ==
    VineRec(id,
            [i \in 1 .. len |->
                IF way = "h" THEN Cell(x + i - 1, y) ELSE Cell(x, y + i - 1)],
            IF way = "h" THEN "left" ELSE "down", "", <<>>, {"color"})

Segments(id) ==
    {Segment(id, x, y, way, len) :
        x \in 0 .. MaxGrid - 1, y \in 0 .. 1,
        way \in {"h", "v"}, len \in 1 .. 2}

\* Up to two segment vines on a small grid, no mask: tilings, gaps, overlaps
\* and cells outside the grid.
TileDocs ==
    {DocRec(<<w, h>>, "Seedling", vines, EmptyMask, {"mask"}) :
        w \in 1 .. MaxGrid, h \in 1 .. 2,
        vines \in {<<>>} \cup {<<a>> : a \in Segments("v1")}
                  \cup {<<a, b>> : a \in Segments("v1"), b \in Segments("v2")}}

BlockLists(ids, size) ==
    {SetToSeq(S) : S \in {T \in SUBSET ids : Cardinality(T) <= size}}

\* n row vines on a fully tiled 2 x n grid; the first blocks up to two and
\* every other at most one of the vines and the id "ghost" that no vine has.
BlockDocs ==
    UNION {
        {DocRec(<<2, Max2(n, 1)>>, "Seedling",
                [i \in 1 .. n |-> RowVine(VineId(i), i - 1, "", blocks[i], {"color"})],
                EmptyMask, {"mask"}) :
            blocks \in {f \in [1 .. n -> BlockLists({VineId(i) : i \in 1 .. n}
                                                    \cup {"ghost"}, 2)] :
                          \A i \in 2 .. n : Len(f[i]) <= 1}} :
        n \in 0 .. MaxBlockVines}

\* n row vines on a fully tiled 2 x n grid: a of them sunset_orange, b
\* moss_green, at most one of the unlisted color pink and the rest without a
\* color.
ColorOfIndex(i, a, b, c) ==
    IF i <= a THEN "sunset_orange"
    ELSE IF i <= a + b THEN "moss_green"
    ELSE IF i <= a + b + c THEN "pink" ELSE ""

ColorDocs ==
    UNION {
        {DocRec(<<2, n>>, "Seedling",
                [i \in 1 .. n |->
                    RowVine("v", i - 1, ColorOfIndex(i, a, b, c), <<>>,
                            IF ColorOfIndex(i, a, b, c) = "" THEN {"color"} ELSE {})],
                EmptyMask, {"mask"}) :
            a \in 0 .. n, b \in 0 .. n, c \in 0 .. 1} :
        n \in 1 .. MaxColorVines}

\* Twenty row vines, 6, 7 or 8 of them sunset_orange: 7 of 20 is 35%.
CapEdgeDocs ==
    {DocRec(<<2, 20>>, "Zen",
            [i \in 1 .. 20 |->
                RowVine("v", i - 1, ColorOfIndex(i, a, 0, 0), <<>>,
                        IF ColorOfIndex(i, a, 0, 0) = "" THEN {"color"} ELSE {})],
            EmptyMask, {"mask"}) :
        a \in {6, 7, 8}}

\* n colorless row vines under two of the tiers and under an unrecognized one.
CountDocs ==
    {DocRec(<<2, Max2(n, 1)>>, difficulty,
            [i \in 1 .. n |-> RowVine("v", i - 1, "", <<>>, {"color"})],
            EmptyMask, {"mask"}) :
        n \in 0 .. MaxCountVines,
        difficulty \in {"Seedling", "Sprout", "Zen"}}

\* A w x 1 grid with one vine over its first k cells and a mask whose first
\* m points are the last cells of the row.
LineVine(k) ==
    VineRec("v1", [i \in 1 .. k |-> Cell(i - 1, 0)], "left", "", <<>>, {"color"})

LineMasks(w) ==
    {MaskRec(mode, [i \in 1 .. m |-> [kind |-> kind, x |-> w - i, y |-> 0]]) :
        mode \in {"hide", "show"}, m \in 0 .. MaxHidden,
        kind \in {"list", "dict", "other"}}

LineDocs ==
    UNION {
        {DocRec(<<w, 1>>, "Zen", <<LineVine(k)>>, EmptyMask, {"mask"}) :
            k \in Max2(2, w - 4) .. w + 1}
        \cup
        {DocRec(<<w, 1>>, "Zen", <<LineVine(k)>>, mask, {}) :
            k \in Max2(2, w - 4) .. w + 1, mask \in LineMasks(w)} :
        w \in {2, LineWidth}}

\* The chain v1 -> v2 -> ... -> vn on a fully tiled 2 x n grid, under two of
\* the tiers and under an unrecognized one: depth n - 1.
ChainDocs ==
    {DocRec(<<2, n>>, difficulty,
            [i \in 1 .. n |->
                RowVine(VineId(i), i - 1, "",
                        IF i < n THEN <<VineId(i + 1)>> ELSE <<>>, {"color"})],
            EmptyMask, {"mask"}) :
        n \in 1 .. MaxChain, difficulty \in {"Seedling", "Sprout", "Zen"}}

\* `layers` vines on a k x 1 grid: the first covers the row, every other one
\* lies over its first j cells.
OverlapDocs ==
    {DocRec(<<k, 1>>, "Zen",
            [v \in 1 .. layers |->
                VineRec(VineId(v),
                        [i \in 1 .. (IF v = 1 THEN k ELSE j) |-> Cell(i - 1, 0)],
                        "left", "", <<>>, {"color"})],
            EmptyMask, {"mask"}) :
        k \in 2 .. MaxOverlap, j \in 2 .. MaxOverlap, layers \in 2 .. 3}

\* The grid_size of a degenerate document: the value, whether the key is
\* missing, and whether the two entries are strings.
GridShapes ==
    {[value |-> <<2, 1>>, missing |-> FALSE, strings |-> FALSE],
     [value |-> <<>>, missing |-> TRUE, strings |-> FALSE],
     [value |-> <<>>, missing |-> FALSE, strings |-> FALSE],
     [value |-> <<2>>, missing |-> FALSE, strings |-> FALSE],
     [value |-> <<2, 1, 1>>, missing |-> FALSE, strings |-> FALSE],
     [value |-> <<2, 1>>, missing |-> FALSE, strings |-> TRUE],
     [value |-> <<0, 1>>, missing |-> FALSE, strings |-> FALSE],
     [value |-> <<0, 0>>, missing |-> FALSE, strings |-> FALSE],
     [value |-> <<-1, 2>>, missing |-> FALSE, strings |-> FALSE]}

\* The vines of a degenerate document: the key missing, no vine, one good
\* vine, a vine without id, vines with an empty or a missing path, and two
\* vines over the same cells.
VineShapes ==
    {[value |-> <<>>, missing |-> TRUE],
     [value |-> <<>>, missing |-> FALSE],
     [value |-> <<RowVine("v1", 0, "", <<>>, {"color"})>>, missing |-> FALSE],
     [value |-> <<RowVine("", 0, "", <<>>, {"color", "id"})>>, missing |-> FALSE],
     [value |-> <<RowVine("v1", 0, "", <<>>, {"color"}),
                  RowVine("", 0, "", <<>>, {"color", "id"})>>, missing |-> FALSE],
     [value |-> <<VineRec("v1", <<>>, "left", "", <<>>, {"color"})>>,
      missing |-> FALSE],
     [value |-> <<VineRec("v1", <<>>, "left", "", <<>>, {"color", "ordered_path"})>>,
      missing |-> FALSE],
     [value |-> <<RowVine("v1", 0, "", <<>>, {"color"}),
                  RowVine("v2", 0, "", <<>>, {"color"})>>, missing |-> FALSE]}

DegenerateDocs ==
    {[DocRec(grid.value, difficulty, vines.value, EmptyMask,
             {"mask"} \cup (IF grid.missing THEN {"grid_size"} ELSE {})
                      \cup (IF vines.missing THEN {"vines"} ELSE {}))
        EXCEPT !.nonnumeric = IF grid.strings THEN {"grid_size"} ELSE {}] :
        grid \in GridShapes, vines \in VineShapes,
        difficulty \in {"Seedling", "Zen"}}

\* Ten or more row vines pulled to the left on a fully tiled grid, the
\* first `chain` + 1 of them a chain, under a tier and under an unrecognized
\* one: enough vines for the directional balance to speak.
BalanceDocs ==
    {DocRec(<<2, n>>, difficulty,
            [i \in 1 .. n |->
                RowVine(IF i <= 3 THEN VineId(i) ELSE "v", i - 1, "",
                        IF i <= chain THEN <<VineId(i + 1)>> ELSE <<>>,
                        {"color"})],
            EmptyMask, {"mask"}) :
        n \in 10 .. MaxBalanceVines, chain \in 0 .. 2, difficulty \in {"Seedling", "Zen"}}

Docs == BalanceDocs \cup PathDocs \cup TileDocs \cup BlockDocs \cup ColorDocs \cup CapEdgeDocs
        \cup CountDocs \cup LineDocs \cup ChainDocs \cup OverlapDocs
        \cup DegenerateDocs

---------------------------------------------------------------------------
(* LevelValidator.__init__, validate_all and print_report                  *)

\* A level file: whether its text parses, and the document it parses to.
FileRec(doc) == [parses |-> TRUE, doc |-> doc]

\* No document: every key is missing.
NoDocument ==
    DocRec(<<>>, "", <<>>, EmptyMask,
           Range(required_fields) \cup {"mask"})

\* A file whose text is not JSON.
Garbage == [parses |-> FALSE, doc |-> NoDocument]

\* A one-cell-wide document of n colorless row vines under an unrecognized
\* tier, the first vine with the given color and blocks.
PlainDoc(n, color, blocks) ==
    DocRec(<<2, n>>, "Zen",
           [i \in 1 .. n |->
               IF i = 1
               THEN RowVine("v1", 0, color, blocks,
                            IF color = "" THEN {"color"} ELSE {})
               ELSE RowVine(VineId(i), i - 1, "", <<>>, {"color"})],
           EmptyMask, {"mask"})

\* The files of a batch: a valid document, a valid one with a warning, one
\* with a violation, one with a blocks edge, one with a cycle, one with a
\* vine without id, and a file that does not parse.
BatchFiles ==
    {FileRec(PlainDoc(1, "", <<>>)),
     FileRec(PlainDoc(3, "pink", <<>>)),
     FileRec(PlainDoc(1, "pink", <<>>)),
     FileRec(PlainDoc(2, "", <<"v2">>)),
     FileRec(PlainDoc(1, "", <<"v1">>)),
     FileRec([PlainDoc(1, "", <<>>) EXCEPT
                !.vines = <<RowVine("", 0, "", <<>>, {"color", "id"})>>]),
     Garbage}

\* main before its loop, whatever os.walk found: one file, or none.
StartOf(files) ==
    /\ level_files = files
    /\ disk = [i \in DOMAIN files |-> "original"]
    /\ idx = 0
    /\ printed = <<>>
    /\ tally = [files_checked |-> 0, files_valid |-> 0,
                total_violations |-> 0, total_warnings |-> 0]
    /\ status = -1
    /\ data = NoDocument
    /\ violations = <<>>
    /\ warnings = <<>>
    /\ pc = "start"
    /\ exc = "none"
    /\ verdict = FALSE

Init ==
    \E files \in {<<FileRec(doc)>> : doc \in Docs} \cup {<<Garbage>>, <<>>} :
        StartOf(files)

\* main before its loop with a batch of up to MaxFiles files.
BatchInit ==
    \E files \in SeqsUpTo(BatchFiles, MaxFiles) : StartOf(files)

\* The top of main: `if not level_files: return`, and the process exits
\* with sys.exit(None), status 0.
Start ==
    /\ pc = "start"
    /\ IF level_files = <<>>
       THEN /\ pc' = "exited"
            /\ status' = 0
            /\ UNCHANGED idx
       ELSE /\ pc' = "read"
            /\ idx' = 1
            /\ UNCHANGED status
    /\ UNCHANGED <<valVars, level_files, disk, printed, tally>>

\* `files_checked += 1`, json.load and LevelValidator(fpath, data).
ReadFile ==
    /\ pc = "read" /\ exc = "none"
    /\ tally' = [tally EXCEPT !.files_checked = @ + 1]
    /\ IF level_files[idx].parses
       THEN /\ data' = level_files[idx].doc
            /\ violations' = <<>>
            /\ warnings' = <<>>
            /\ pc' = "structure"
            /\ UNCHANGED exc
       ELSE /\ exc' = "JSONDecodeError"
            /\ UNCHANGED <<data, violations, warnings, pc>>
    /\ UNCHANGED <<verdict, level_files, idx, disk, printed, status>>

ValidateBasicStructure ==
    /\ pc = "structure" /\ exc = "none"
    /\ violations' = violations \o MissingFieldViolations(data)
                                \o GridSizeViolations(data)
    /\ pc' = Following("structure")
    /\ UNCHANGED <<data, warnings, exc, verdict, mainVars>>

ValidateVinePaths ==
    /\ pc = "paths" /\ exc = "none"
    /\ violations' = violations \o PathViolations(data)
    /\ pc' = Following("paths")
    /\ UNCHANGED <<data, warnings, exc, verdict, mainVars>>

ValidateGridOccupancy ==
    /\ pc = "occupancy" /\ exc = "none"
    /\ IF Len(Get(data, "grid_size", <<>>)) # 2
       THEN /\ pc' = Following("occupancy")
            /\ UNCHANGED <<data, violations, warnings, exc>>
       ELSE IF NonNumeric(data, "grid_size")
       THEN \* `width * height` of two strings
            /\ exc' = "TypeError"
            /\ UNCHANGED <<data, violations, warnings, pc>>
       ELSE LET r == GridOccupancy(data)
            IN /\ data' = SetMetric(data, "occupancy_percent", r.percent)
               /\ violations' = violations \o r.violations
               /\ warnings' = warnings \o r.warnings
               /\ pc' = Following("occupancy")
               /\ UNCHANGED exc
    /\ UNCHANGED <<verdict, mainVars>>

ValidateColors ==
    /\ pc = "colors" /\ exc = "none"
    /\ LET colors == ColorsOf(data)
           keys == InsertionOrder(colors)
       IN /\ warnings' = warnings \o UnknownColorWarnings(keys)
                                  \o ColorCountWarnings(data, keys)
          /\ violations' = violations \o ColorCapViolations(colors, keys)
          /\ data' = SetMetric(data, "color_distribution",
                                color_distribution(colors, keys))
    /\ pc' = Following("colors")
    /\ UNCHANGED <<exc, verdict, mainVars>>

ValidateVineLengths ==
    /\ pc = "lengths" /\ exc = "none"
    /\ LET vines == Get(data, "vines", <<>>)
           difficulty == Get(data, "difficulty", "")
       IN IF vines = <<>> \/ difficulty \notin DOMAIN DIFFICULTY_SPECS
          THEN UNCHANGED <<violations, warnings>>
          ELSE /\ warnings' = warnings \o AvgLengthWarnings(difficulty, LengthsOf(data))
               /\ violations' = violations \o MinLengthViolations(LengthsOf(data))
    /\ pc' = Following("lengths")
    /\ UNCHANGED <<data, exc, verdict, mainVars>>

ValidateBlockingRelationships ==
    /\ pc = "blocking" /\ exc = "none"
    /\ LET r == BlockingRelationships(data)
       IN /\ violations' = violations \o r.violations
          /\ warnings' = warnings \o r.warnings
          /\ exc' = r.exc
          /\ IF r.exc = "none"
             THEN /\ data' = SetMetric(SetMetric(data, "blocking_graph", r.graph),
                                       "blocking_depth", r.depth)
                  /\ pc' = Following("blocking")
             ELSE UNCHANGED <<data, pc>>
    /\ UNCHANGED <<verdict, mainVars>>

ValidateDirectionalBalance ==
    /\ pc = "balance" /\ exc = "none"
    /\ warnings' = warnings \o DirectionWarnings(data)
    /\ pc' = Following("balance")
    /\ UNCHANGED <<data, violations, exc, verdict, mainVars>>

ValidateDifficultyCompliance ==
    /\ pc = "difficulty" /\ exc = "none"
    /\ violations' = violations \o DifficultyViolations(data)
    /\ pc' = Following("difficulty")
    /\ UNCHANGED <<data, warnings, exc, verdict, mainVars>>

\* `open(fpath, 'w')` empties the file.
OpenForWrite ==
    /\ pc = "returned" /\ exc = "none"
    /\ disk' = [disk EXCEPT ![idx] = "empty"]
    /\ pc' = "dump"
    /\ UNCHANGED <<valVars, level_files, idx, printed, tally, status>>

\* json.dump writes the document piece by piece and raises TypeError at the
\* first value it cannot encode; what it wrote until then stays in the file.
Dump ==
    /\ pc = "dump" /\ exc = "none"
    /\ IF Serializable(data)
       THEN /\ disk' = [disk EXCEPT ![idx] = "annotated"]
            /\ pc' = "written"
            /\ UNCHANGED exc
       ELSE /\ disk' = [disk EXCEPT ![idx] = "partial"]
            /\ exc' = "TypeError"
            /\ UNCHANGED pc
    /\ UNCHANGED <<data, violations, warnings, verdict, level_files, idx,
                   printed, tally, status>>

PrintReport ==
    /\ pc = "written" /\ exc = "none"
    /\ verdict' = print_report(violations, warnings)
    /\ printed' = Append(printed, report_line(idx, violations, warnings))
    /\ pc' = "reported"
    /\ UNCHANGED <<data, violations, warnings, exc, level_files, idx, disk,
                   tally, status>>

\* The branch on print_report's value, and on to the next file.
Tally ==
    /\ pc = "reported" /\ exc = "none"
    /\ tally' = IF verdict
                THEN [tally EXCEPT !.files_valid = @ + 1]
                ELSE [tally EXCEPT !.total_violations = @ + Len(violations),
                                   !.total_warnings = @ + Len(warnings)]
    /\ pc' = next_pc(idx, level_files)
    /\ idx' = next_idx(idx, level_files)
    /\ UNCHANGED <<valVars, level_files, disk, printed, status>>

\* The two except clauses of the loop body, and on to the next file.
HandleException ==
    /\ exc # "none" /\ pc \in Range(Steps)
    /\ printed' = Append(printed, error_line(idx, exc))
    /\ tally' = [tally EXCEPT !.total_violations = @ + 1]
    /\ exc' = "none"
    /\ pc' = next_pc(idx, level_files)
    /\ idx' = next_idx(idx, level_files)
    /\ UNCHANGED <<data, violations, warnings, verdict, level_files, disk, status>>

\* The summary, `return 0 if files_valid == files_checked else 1` and sys.exit.
Summary ==
    /\ pc = "summary"
    /\ status' = exit_status(tally.files_valid, tally.files_checked)
    /\ pc' = "exited"
    /\ UNCHANGED <<valVars, level_files, idx, disk, printed, tally>>

\* The process is killed inside the loop body.
Crash ==
    /\ pc \in Range(Steps)
    /\ pc' = "crashed"
    /\ UNCHANGED <<valVars, mainVars>>

Next ==
    \/ Start
    \/ ReadFile
    \/ OpenForWrite
    \/ Dump
    \/ Tally
    \/ HandleException
    \/ Summary
    \/ ValidateBasicStructure
    \/ ValidateVinePaths
    \/ ValidateGridOccupancy
    \/ ValidateColors
    \/ ValidateVineLengths
    \/ ValidateBlockingRelationships
    \/ ValidateDirectionalBalance
    \/ ValidateDifficultyCompliance
    \/ PrintReport

Spec == Init /\ [][Next]_vars

BatchNext == Next \/ Crash

BatchSpec == BatchInit /\ [][BatchNext]_vars

---------------------------------------------------------------------------
(* Vocabulary of the properties.                                           *)

StepIndex(step) == CHOOSE i \in DOMAIN Steps : Steps[i] = step

\* main is in its loop body, at one of the steps.
InLoop == pc \in Range(Steps)

Validators ==
    {"structure", "paths", "occupancy", "colors", "lengths", "blocking",
     "balance", "difficulty"}

\* The validator `step` has run on the current document: to its end, or to
\* the exception that ended it.
Acted(step) ==
    /\ InLoop
    /\ \/ StepIndex(pc) > StepIndex(step)
       \/ pc = step /\ exc # "none"

\* validate_all has returned its (violations, warnings).
Returned == InLoop /\ StepIndex(pc) >= StepIndex("returned")

\* A validator raised: validate_all ended without returning.
Raised == pc \in Validators /\ exc # "none"

\* validate_all is over: it returned or it raised.
Ended == Returned \/ Raised

Vines == Get(data, "vines", <<>>)

\* The edges A -> B of the document: vine A's blocks list names B.
Edges ==
    UNION {{<<Vines[i].id, b>> : b \in Range(BlocksOf(Vines[i]))} : i \in DOMAIN Vines}

Nodes == {e[1] : e \in Edges} \cup {e[2] : e \in Edges}
         \cup {Vines[i].id : i \in DOMAIN Vines}

\* The nodes at the end of a walk of k edges that starts in S.
RECURSIVE WalkEnds(_, _)
WalkEnds(S, k) ==
    IF k = 0 THEN S
    ELSE WalkEnds({e[2] : e \in {f \in Edges : f[1] \in S}}, k - 1)

\* Some vine reaches itself along one or more edges.
SelfReaching ==
    \E i \in DOMAIN Vines : \E k \in 1 .. Cardinality(Nodes) :
        Vines[i].id \in WalkEnds({Vines[i].id}, k)

\* No walk is longer than the nodes allow: the graph has no cycle.
Acyclic == WalkEnds(Nodes, Cardinality(Nodes)) = {}

\* The number of edges of the longest walk of the graph.
LongestWalk ==
    IF Nodes = {} THEN 0
    ELSE CHOOSE k \in 0 .. Cardinality(Nodes) :
            /\ WalkEnds(Nodes, k) # {}
            /\ \A m \in k + 1 .. Cardinality(Nodes) : WalkEnds(Nodes, m) = {}

InDegree(id) == Cardinality({e \in Edges : e[2] = id})

GridOk ==
    /\ "grid_size" \notin data.absent
    /\ Len(data.grid_size) = 2
    /\ ~NonNumeric(data, "grid_size")

GridCells ==
    {<<x, y>> : x \in 0 .. data.grid_size[1] - 1, y \in 0 .. data.grid_size[2] - 1}

\* The (vine, index) positions of all path cells and the coordinate of each.
PathOf(i) == Get(Vines[i], "ordered_path", <<>>)

Positions == UNION {{<<i, j>> : j \in DOMAIN PathOf(i)} : i \in DOMAIN Vines}

CoordAt(p) == <<PathOf(p[1])[p[2]].x, PathOf(p[1])[p[2]].y>>

UniqueOccupied == {CoordAt(p) : p \in Positions}

\* Every cell of the grid lies under exactly one path cell and no path cell
\* lies outside the grid.
PerfectTiling ==
    /\ GridOk
    /\ data.grid_size[1] > 0 /\ data.grid_size[2] > 0
    /\ UniqueOccupied = GridCells
    /\ Cardinality(Positions) = Cardinality(GridCells)

OccupancyViolationKinds == {"Overlap", "NotFullyTiled", "CoverageIncomplete"}

---------------------------------------------------------------------------
(* Properties.                                                             *)

\* C1: the verdict print_report returns for the lists validate_all returned
\* is True exactly when the violations list is empty, and it is the same for
\* every other number of warnings, fewer or more.
C1_VerdictIffNoViolations ==
    pc = "reported" =>
        /\ verdict = (violations = <<>>)
        /\ \A k \in 0 .. Len(warnings) + 2 :
              print_report(violations,
                           [i \in 1 .. k |-> Msg("UnknownColor", "pink", 0, 0)])
                = verdict

\* C1 witness: a document reported VALID although warnings were recorded.
C1_Witness == pc = "reported" /\ verdict /\ warnings # <<>> /\ violations = <<>>

\* C2: when a vine reaches itself along blocks edges, validation ends by
\* returning a report whose violations hold a circular-blocking entry.
C2_CycleYieldsCircularReport ==
    (Ended /\ SelfReaching) =>
        (Returned /\ "Circular" \in KindsOf(violations))

\* C3: the blocking analyzer appends the deadlock violation once when every
\* vine has an incoming edge and not at all when some vine has none.
C3_DeadlockIffAllBlocked ==
    (Acted("blocking") /\ exc # "KeyError") =>
        CountKind(violations, "Deadlock") =
            (IF \A i \in DOMAIN Vines : InDegree(Vines[i].id) > 0 THEN 1 ELSE 0)

\* C3 witness: vines exist, each has an incoming edge, and the one deadlock
\* violation is in the list.
C3_Witness ==
    /\ Acted("blocking")
    /\ Len(Vines) >= 2
    /\ \A i \in DOMAIN Vines : InDegree(Vines[i].id) > 0
    /\ CountKind(violations, "Deadlock") = 1

\* C4: for an acyclic graph the blocking_depth written into the document is
\* the number of edges of the longest directed path.
C4_DepthIsLongestPath ==
    (Acted("blocking") /\ exc = "none" /\ Acyclic) =>
        /\ "blocking_depth" \notin data.absent
        /\ data.blocking_depth = LongestWalk

\* C4 witness: the chain v1 -> v2 -> v3 got depth 2.
C4_Witness ==
    /\ Acted("blocking") /\ exc = "none"
    /\ Edges = {<<"v1", "v2">>, <<"v2", "v3">>}
    /\ data.blocking_depth = 2

\* C5: a maskless document whose paths cover each grid cell exactly once
\* gets occupancy_percent 100.0 and no occupancy violation.
C5_PerfectTilingPasses ==
    (Acted("occupancy") /\ "mask" \in data.absent /\ PerfectTiling) =>
        /\ "occupancy_percent" \notin data.absent
        /\ data.occupancy_percent = 1000
        /\ KindsOf(violations) \cap OccupancyViolationKinds = {}

\* C5 witness: the 2 x 2 grid tiled by two two-cell vines.
C5_Witness ==
    /\ Acted("occupancy") /\ "mask" \in data.absent /\ PerfectTiling
    /\ data.grid_size = <<2, 2>>
    /\ Len(Vines) = 2
    /\ data.occupancy_percent = 1000

\* The head_direction deltas as the specification states them.
StatedDelta(dir) ==
    CASE dir = "right" -> <<1, 0>>
      [] dir = "left" -> <<-1, 0>>
      [] dir = "up" -> <<0, 1>>
      [] dir = "down" -> <<0, -1>>

\* Vine i is one the head/neck rule speaks about.
HeadNeckApplies(i) ==
    /\ Len(PathOf(i)) >= 2
    /\ Get(Vines[i], "head_direction", "") \in {"up", "down", "left", "right"}

NeckMatches(i) ==
    /\ PathOf(i)[2].x = PathOf(i)[1].x - StatedDelta(Vines[i].head_direction)[1]
    /\ PathOf(i)[2].y = PathOf(i)[1].y - StatedDelta(Vines[i].head_direction)[2]

CountFor(list, kind, who) ==
    Cardinality({i \in DOMAIN list : list[i].kind = kind /\ list[i].who = who})

\* C6: a vine with two or more cells and a valid head_direction gets no
\* head/neck violation exactly when path[1] = path[0] - delta: per vine id,
\* the head/neck violations are as many as the vines of that id whose neck
\* is elsewhere.
C6_HeadNeckIffNeckBehindHead ==
    Acted("paths") =>
        \A i \in DOMAIN Vines :
            CountFor(violations, "HeadMismatch", Get(Vines[i], "id", "unknown"))
              = Cardinality({j \in DOMAIN Vines :
                    /\ Get(Vines[j], "id", "unknown") = Get(Vines[i], "id", "unknown")
                    /\ HeadNeckApplies(j)
                    /\ ~NeckMatches(j)})

\* C6 witness: head (1,1) pulled up with its neck at (1,0) passed the check.
C6_Witness ==
    /\ Acted("paths")
    /\ Len(Vines) = 1
    /\ Get(Vines[1], "head_direction", "") = "up"
    /\ PathOf(1) = <<Cell(1, 1), Cell(1, 0)>>
    /\ "HeadMismatch" \notin KindsOf(violations)

\* C7: without a mask a coverage violation is added exactly when the number
\* of unique occupied coordinates differs from the number of grid cells.
C7_CoverageViolationIffCountsDiffer ==
    (Acted("occupancy") /\ "mask" \in data.absent /\ GridOk) =>
        (("NotFullyTiled" \in KindsOf(violations))
            <=> Cardinality(UniqueOccupied) # data.grid_size[1] * data.grid_size[2])

\* The cells the mask hides, as the specification states them: the points of
\* a mask of mode "hide" given as pairs or as x/y records.
StatedHidden ==
    IF "mask" \notin data.absent /\ Get(data.mask, "mode", "") = "hide"
    THEN {<<data.mask.points[i].x, data.mask.points[i].y>> :
            i \in {j \in DOMAIN data.mask.points :
                      data.mask.points[j].kind \in {"list", "dict"}}}
    ELSE {}

CoverageViolation ==
    KindsOf(violations) \cap {"CoverageIncomplete", "NotFullyTiled"} # {}

\* C8 as stated: whenever the document carries a mask the masked policy is
\* applied to unique / (grid cells - hidden cells).
C8_MaskedPolicyWheneverMask ==
    LET unique == Cardinality(UniqueOccupied)
        denominator == data.grid_size[1] * data.grid_size[2]
                         - Cardinality(StatedHidden)
    IN (Acted("occupancy") /\ "mask" \notin data.absent /\ GridOk
          /\ denominator > 0) =>
        /\ CoverageViolation <=> 100 * unique < 99 * denominator
        /\ ("CoverageNear" \in KindsOf(warnings) /\ ~CoverageViolation)
             <=> (100 * unique >= 99 * denominator /\ unique < denominator)
        /\ unique >= denominator =>
             (~CoverageViolation /\ "CoverageNear" \notin KindsOf(warnings))

\* C8 amended: the masked policy is applied exactly when the mask hides at
\* least one cell; otherwise, mask or not, the strict rule is.
C8_MaskedPolicyWhenCellsHidden ==
    LET unique == Cardinality(UniqueOccupied)
        total == data.grid_size[1] * data.grid_size[2]
        denominator == Max2(total - Cardinality(StatedHidden), 0)
        below99 == denominator = 0 \/ 100 * unique < 99 * denominator
        below100 == denominator = 0 \/ unique < denominator
    IN (Acted("occupancy") /\ GridOk) =>
        IF StatedHidden # {}
        THEN /\ CountKind(violations, "CoverageIncomplete")
                  = (IF below99 THEN 1 ELSE 0)
             /\ CountKind(warnings, "CoverageNear")
                  = (IF ~below99 /\ below100 THEN 1 ELSE 0)
             /\ "NotFullyTiled" \notin KindsOf(violations)
        ELSE /\ CountKind(violations, "NotFullyTiled")
                  = (IF unique < total THEN 1 ELSE 0)
             /\ "CoverageIncomplete" \notin KindsOf(violations)
             /\ "CoverageNear" \notin KindsOf(warnings)

\* C8 witness: one cell hidden, 99 of the 100 visible cells occupied, and
\* the near-complete warning recorded without a coverage violation.
C8_Witness ==
    /\ Acted("occupancy") /\ GridOk
    /\ Cardinality(StatedHidden) = 1
    /\ 100 * Cardinality(UniqueOccupied)
         = 99 * (data.grid_size[1] * data.grid_size[2] - 1)
    /\ "CoverageNear" \in KindsOf(warnings)
    /\ ~CoverageViolation

ColorValues == {Get(Vines[i], "color", "unknown") : i \in DOMAIN Vines}

VinesOfColor(c) ==
    Cardinality({i \in DOMAIN Vines : Get(Vines[i], "color", "unknown") = c})

\* C9 as stated: every color value, "unknown" included, gets one violation
\* when it is on more than 35% of the vines and none otherwise.
C9_CapOnEveryColorValue ==
    Acted("colors") =>
        \A c \in ColorValues :
            CountFor(violations, "ColorExceeds", c)
              = (IF 100 * VinesOfColor(c) > 35 * Len(Vines) THEN 1 ELSE 0)

\* C9 amended: every color value other than "unknown" gets one violation,
\* citing count/total, when it is on more than 35% of the vines and none
\* otherwise; "unknown" gets none whatever its share.
C9_CapOnEveryNamedColor ==
    Acted("colors") =>
        /\ \A c \in ColorValues \ {"unknown"} :
              CountFor(violations, "ColorExceeds", c)
                = (IF 100 * VinesOfColor(c) > 35 * Len(Vines) THEN 1 ELSE 0)
        /\ CountFor(violations, "ColorExceeds", "unknown") = 0
        /\ \A k \in DOMAIN violations :
              violations[k].kind = "ColorExceeds" =>
                /\ violations[k].n = VinesOfColor(violations[k].who)
                /\ violations[k].m = Len(Vines)

\* C9 witness: sunset_orange on 4 of 10 vines is reported as 4/10.
C9_Witness ==
    /\ Acted("colors")
    /\ Len(Vines) = 10
    /\ Msg("ColorExceeds", "sunset_orange", 4, 10) \in Range(violations)

\* C10: under a known tier one vine-count violation is added exactly when
\* the number of vines, zero included, is outside the tier's range; under
\* an unrecognized tier none is.
C10_VineCountOutsideRange ==
    Acted("difficulty") =>
        LET difficulty == Get(data, "difficulty", "")
        IN CountKind(violations, "VineCountOutside") =
            (IF difficulty \in DOMAIN DIFFICULTY_SPECS
                /\ ~(DIFFICULTY_SPECS[difficulty].vine_count_range[1] <= Len(Vines)
                     /\ Len(Vines) <= DIFFICULTY_SPECS[difficulty].vine_count_range[2])
             THEN 1 ELSE 0)

\* C11: validate_all never ends in an exception: for every parsed
\* document no validator raises, so each one runs and the lists are returned.
C11_ValidateAllTotal == ~Raised

\* C12: at every moment each file holds its original text or its complete
\* annotated text, never nothing and never a part.
C12_FileOriginalOrAnnotated ==
    \A i \in DOMAIN disk : disk[i] \in {"original", "annotated"}

\* The file at position i of the batch met a fault: main printed an
\* error line for it.
Faulted(i) == printed[i].mark \in {"invalid_json", "error"}

\* C13: when main exits, every file of the list has been processed in turn,
\* whatever faults earlier files met, and the exit status is 0 exactly when
\* no file met a fault and every file's violations list was empty.
C13_FaultsContained ==
    pc = "exited" =>
        /\ tally.files_checked = Len(level_files)
        /\ Len(printed) = Len(level_files)
        /\ \A i \in DOMAIN printed : printed[i].file = i
        /\ (status = 0) <=>
              \A i \in DOMAIN level_files :
                  ~Faulted(i) /\ printed[i].violations = 0

\* C13 witness: the first file of two did not parse, the second was still
\* validated and reported clean, and the exit status is 1.
C13_Witness ==
    /\ pc = "exited"
    /\ Len(level_files) = 2
    /\ printed[1].mark = "invalid_json"
    /\ printed[2].mark = "ok"
    /\ status = 1

\* C14: once every vine has an id, the depth computation ends for every
\* graph, cyclic or not, and writes blocking_depth into the document.
C14_DepthForEveryGraph ==
    (Acted("blocking") /\ exc # "KeyError") =>
        /\ ~(pc = "blocking" /\ exc = "RecursionError")
        /\ "blocking_depth" \notin data.absent

\* The vine ids that are keys of the graph: vines with a non-empty blocks list.
KeyIds == {e[1] : e \in Edges}

\* v reaches itself along one or more edges.
ReachesItself(v) ==
    \E k \in 1 .. Cardinality(Nodes) : v \in WalkEnds({v}, k)

\* C15: for every key v of the graph the violations hold one circular
\* entry naming v when v reaches itself and none when it does not.
C15_OneCircularPerOrigin ==
    (Acted("blocking") /\ exc # "KeyError") =>
        \A v \in KeyIds :
            CountFor(violations, "Circular", v)
              = (IF ReachesItself(v) THEN 1 ELSE 0)

\* Vine i is named in the blocks list of a vine other than itself.
BlockedByAnother(i) ==
    \E j \in DOMAIN Vines : j # i /\ Vines[i].id \in Range(BlocksOf(Vines[j]))

\* C16: the deadlock violation is there exactly when every vine is named in
\* the blocks list of some other vine; a vine named only by itself counts as
\* clearable.
C16_ClearableUnlessBlockedByAnother ==
    (Acted("blocking") /\ exc # "KeyError") =>
        CountKind(violations, "Deadlock") =
            (IF \A i \in DOMAIN Vines : BlockedByAnother(i) THEN 1 ELSE 0)

VineIds == {Vines[i].id : i \in DOMAIN Vines}

\* The non-existent-vine violations for entry j of vine i's blocks list.
NonExistentCount(i, j) ==
    Cardinality({k \in DOMAIN violations :
        /\ violations[k].kind = "BlocksNonExistent"
        /\ violations[k].who = Vines[i].id
        /\ violations[k].n = j
        /\ violations[k].m = BlocksOf(Vines[i])[j]})

\* C17: every blocks entry naming an id no vine has gets one violation and
\* every entry naming a vine gets none; the graph written into the document
\* holds every edge, known target or not; and a document whose only edge
\* goes to an id no vine has gets depth 1 and no circular violation.
C17_UnknownTargetKeptAsLeaf ==
    (Acted("blocking") /\ exc # "KeyError") =>
        /\ \A i \in DOMAIN Vines : \A j \in DOMAIN BlocksOf(Vines[i]) :
              NonExistentCount(i, j)
                = (IF BlocksOf(Vines[i])[j] \in VineIds THEN 0 ELSE 1)
        /\ "blocking_graph" \notin data.absent =>
              /\ DOMAIN data.blocking_graph = KeyIds
              /\ \A e \in Edges : e[2] \in data.blocking_graph[e[1]]
        /\ (Cardinality(Edges) = 1 /\ \A e \in Edges : e[2] \notin VineIds) =>
              /\ "blocking_depth" \notin data.absent
              /\ data.blocking_depth = 1
              /\ "Circular" \notin KindsOf(violations)

\* C17 witness: v1 blocks only the id "ghost": one violation, the edge in
\* the graph, depth 1.
C17_Witness ==
    /\ Acted("blocking") /\ exc = "none"
    /\ Edges = {<<"v1", "ghost">>}
    /\ CountKind(violations, "BlocksNonExistent") = 1
    /\ data.blocking_graph["v1"] = {"ghost"}
    /\ data.blocking_depth = 1

\* C18: a computed depth above the max_blocking_depth of a recognized tier
\* adds one warning; a depth at or below it, or an unrecognized tier, adds
\* none; and no violation ever speaks of the depth.
C18_DepthAboveTargetWarnsOnly ==
    (Acted("blocking") /\ "blocking_depth" \notin data.absent) =>
        LET difficulty == Get(data, "difficulty", "")
        IN /\ CountKind(warnings, "DepthExceeds") =
                (IF difficulty \in DOMAIN DIFFICULTY_SPECS
                    /\ data.blocking_depth
                         > DIFFICULTY_SPECS[difficulty].max_blocking_depth
                 THEN 1 ELSE 0)
           /\ "DepthExceeds" \notin KindsOf(violations)

\* C18 witness: depth 2 under Seedling, whose target is 1, left one warning.
C18_Witness ==
    /\ Acted("blocking")
    /\ Get(data, "difficulty", "") = "Seedling"
    /\ "blocking_depth" \notin data.absent
    /\ data.blocking_depth = 2
    /\ CountKind(warnings, "DepthExceeds") = 1
    /\ "DepthExceeds" \notin KindsOf(violations)

\* The path cells the occupancy analyzer scans: none when it returns before
\* its loop, for a grid_size that has not two entries.
Scanned ==
    IF Len(Get(data, "grid_size", <<>>)) = 2 /\ ~NonNumeric(data, "grid_size")
    THEN Positions ELSE {}

VisitsOf(c) == {p \in Scanned : CoordAt(p) = c}

\* The scanned coordinates that occur more than once.
Repeated ==
    {c \in {CoordAt(p) : p \in Scanned} : Cardinality(VisitsOf(c)) > 1}

\* Some scanned coordinate occurs more than once: the scanned cells are more
\* than the coordinates they lie on.
SomeRepeated ==
    Cardinality({CoordAt(p) : p \in Scanned}) < Cardinality(Scanned)

\* Position p comes before position q in document order.
Before(p, q) == p[1] < q[1] \/ (p[1] = q[1] /\ p[2] < q[2])

FirstVisit(c) == CHOOSE p \in VisitsOf(c) : \A q \in VisitsOf(c) \ {p} : Before(p, q)

IdAt(p) == Get(Vines[p[1]], "id", "unknown")

C20_LengthFloorWhateverTier ==
    Acted("lengths") =>
        ((\E i \in DOMAIN Vines : Len(PathOf(i)) < 2)
            => "VineTooShort" \in KindsOf(violations))


---------------------------------------------------------------------------
(* The order of the entries                                                *)

\* The validator that appends entries of kind `kind`.
ProducerOf(kind) ==
    CASE kind \in {"MissingField", "InvalidGridSize", "GridSizeMustBe"}
            -> "structure"
      [] kind \in {"PathTooShort", "NotContiguous", "InvalidHeadDirection",
                   "HeadMismatch"} -> "paths"
      [] kind \in {"Overlap", "CoverageIncomplete", "NotFullyTiled",
                   "CoverageNear"} -> "occupancy"
      [] kind \in {"UnknownColor", "ColorCountOutside", "ColorExceeds"}
            -> "colors"
      [] kind \in {"AvgLengthOutside", "VineTooShort"} -> "lengths"
      [] kind \in {"BlocksNonExistent", "Circular", "Deadlock", "DepthExceeds"}
            -> "blocking"
      [] kind = "DirectionImbalanced" -> "balance"
      [] kind = "VineCountOutside" -> "difficulty"

PlaceIn(order, step) == CHOOSE k \in DOMAIN order : order[k] = step

\* Every entry of `list` comes from a validator no later in `order` than
\* the validators of the entries after it.
ListFollows(order, list) ==
    \A i, j \in DOMAIN list :
        i < j => PlaceIn(order, ProducerOf(list[i].kind))
                    <= PlaceIn(order, ProducerOf(list[j].kind))

\* While validate_all is about to call a validator, every entry so far comes
\* from a validator earlier in `order`.
CallsFollow(order) ==
    (pc \in Range(order) /\ exc = "none") =>
        \A list \in {violations, warnings} : \A i \in DOMAIN list :
            PlaceIn(order, ProducerOf(list[i].kind)) < PlaceIn(order, pc)

StatedOrder ==
    <<"structure", "paths", "occupancy", "colors", "lengths", "balance",
      "blocking", "difficulty">>

CalledOrder ==
    <<"structure", "paths", "occupancy", "colors", "lengths", "blocking",
      "balance", "difficulty">>

\* C21 as stated: the entries of both lists follow the order structure,
\* paths, occupancy, colors, lengths, directional balance, blocking graph,
\* difficulty, so a directional-balance warning precedes every entry of the
\* blocking graph analyzer.
C21_StatisticalBeforeBlocking ==
    /\ ListFollows(StatedOrder, violations)
    /\ ListFollows(StatedOrder, warnings)

\* C21: the validators run, and the entries of both lists follow, the order
\* structure, paths, occupancy, colors, lengths, blocking graph, directional
\* balance, difficulty: color and length entries precede every entry of the
\* blocking graph analyzer, and those precede every directional-balance
\* warning.
C21_BalanceAfterBlocking ==
    /\ ListFollows(CalledOrder, violations)
    /\ ListFollows(CalledOrder, warnings)
    /\ CallsFollow(CalledOrder)

\* validate_all has returned a blocking-depth warning ahead of a
\* directional-balance warning, after a color or length entry.
C21_Witness ==
    /\ Returned
    /\ \E i, j, k \in DOMAIN warnings :
        /\ i < j /\ j < k
        /\ ProducerOf(warnings[i].kind) \in {"colors", "lengths"}
        /\ warnings[j].kind = "DepthExceeds"
        /\ warnings[k].kind = "DirectionImbalanced"


---------------------------------------------------------------------------
(* What a run leaves of the document                                       *)

\* The document as json.load returned it, before validate_all.
Loaded == level_files[idx].doc

\* The fields of a document that are not metrics, each with its value, and
\* which of them the document lacks.
Frame(doc) ==
    [present |-> [field \in {"id", "name", "grid_size", "difficulty", "vines",
                             "max_moves", "min_moves", "complexity", "grace",
                             "mask", "nonnumeric"} |-> doc[field]],
     absent |-> doc.absent \ MetricFields]

\* validate_all is running or over on the current document.
Validating == InLoop /\ pc # "read"

\* C22: from its first validator to its return or its exception,
\* validate_all leaves every field of the document other than
\* occupancy_percent, color_distribution, blocking_graph and blocking_depth
\* as it was loaded, present or absent, and every vine with its id,
\* ordered_path, head_direction, color and blocks, whatever it reports.
C22_OnlyMetricsChange ==
    Validating =>
        /\ Frame(data) = Frame(Loaded)
        /\ Get(data, "vines", <<>>) = Get(Loaded, "vines", <<>>)
        /\ data.absent \subseteq Loaded.absent

\* validate_all has returned violations and warnings for a document with
\* vines, and has written the four metrics into it.
C22_Witness ==
    /\ Returned
    /\ violations # <<>>
    /\ warnings # <<>>
    /\ Vines # <<>>
    /\ MetricFields \subseteq Loaded.absent
    /\ data.absent \cap MetricFields = {}

=============================================================================
